---- MODULE Spec2Model ----
(***************************************************************************)
(* Model of the scattering-theory computation calls of holopy / scatterpy: *)
(*   Tmatrix._raw_fields / Tmatrix._raw_scat_matrs                         *)
(*       (src/holopy/scattering/theory/tmatrix.py)                         *)
(*   DDA.__init__ / DDA.calc_holo                                          *)
(*       (src/scatterpy/theory/dda.py)                                     *)
(* One action per statement (or block of statements touching only the      *)
(* call's own files) of those functions.  The process state is the set of  *)
(* existing temporary directories, the process-wide current working        *)
(* directory, and one activation record per thread of control.             *)
(***************************************************************************)
EXTENDS Integers, Sequences, FiniteSets, TLC

\* ------------------------------------------------------------------ bounds
MaxPoints == 3      \* sampling points N of a call: 1..MaxPoints
MaxRows == 3        \* rows the external solver may write: 0..MaxRows
MaxRuns == 2        \* run000* directories adda may leave: 0..MaxRuns
MaxCalls == 2       \* calls started in one behaviour
MediumWavevec == 2  \* the medium_wavevec argument (an input value)

\* ------------------------------------------------------- names of the file system
OrigDir == 0        \* the directory the process starts in
NoDir == -1         \* temp_dir / current_directory not assigned yet

Threads == {1, 2}

Theories == {"tmatrix", "dda"}
\* Scatterer(kind, shape): Sphere, Axisymmetric with a shape tag, or any other
\* scatterer type ("Other").  Mishchenko's code knows shapes -1, -2 and -3;
\* tmatrix.py derives an equivalent radius for -1 and -2 only.
Shapes == {-1, -2, -3}
TmatScatterers ==
    {[kind |-> "Sphere", shape |-> 0], [kind |-> "Other", shape |-> 0]}
    \cup {[kind |-> "Axisymmetric", shape |-> sh] : sh \in Shapes}
\* dda.py never looks at the scatterer's type (it reads .center, .r, .n, .z)
DdaScatterers == {[kind |-> "Sphere", shape |-> 0]}

\* ------------------------------------------------------------ complex numbers
\* a complex number is <<re, im>>
Cplx(re, im) == <<re, im>>
CNeg(z) == <<0 - z[1], 0 - z[2]>>
\* z * (-2j*pi/med_wavelen) with med_wavelen = 2*pi/medium_wavevec, that is
\* z * (-1j * medium_wavevec):  (a + bi)(-ki) = kb - kai
MishchenkoScale(z) == <<MediumWavevec * z[2], 0 - (MediumWavevec * z[1])>>

\* ------------------------------------------------------------ input encoding
Line(tag, val) == [tag |-> tag, val |-> val]

\* the Sphere lines with the shape code written before the rotation
SphereHeaderShapeEarly(n) ==
    << Line("radius", 0), Line("med_wavelen", 0), Line("n_real", 0),
       Line("n_imag", 0), Line("lit", 1), Line("lit", -1), Line("lit", 0),
       Line("lit", 0), Line("count", n) >>

\* tmatrix.py 88-98: the nine scalar lines of a Sphere
SphereHeader(n) ==
    << Line("radius", 0), Line("med_wavelen", 0), Line("n_real", 0),
       Line("n_imag", 0), Line("lit", 1), Line("lit", 0), Line("lit", 0),
       Line("lit", -1), Line("count", n) >>

\* tmatrix.py 100-111: the scalar lines of an Axisymmetric; the equivalent
\* radius line is written under "if shape == -1" and "if shape == -2" only
AxisymmetricHeader(shape, n) ==
    (IF shape = -1 THEN << Line("eqradius", -1) >> ELSE << >>)
    \o (IF shape = -2 THEN << Line("eqradius", -2) >> ELSE << >>)
    \o << Line("med_wavelen", 0), Line("n_real", 0), Line("n_imag", 0),
          Line("aspect", 0), Line("rotation", 1), Line("rotation", 0),
          Line("lit", shape), Line("count", n) >>

\* np.savetxt(outf, angles): one row per sampling point, in order
AngleRows(n) == [i \in 1..n |-> Line("angle", i)]

\* dda.py 90-93: the three header lines of scat_params.dat
AddaHeader(n) ==
    << Line("global_type=pairs", 0), Line("N", n), Line("pairs=", 0) >>

\* ------------------------------------------------------------ output decoding
\* A result file is [numeric, text]: text is a sequence of rows, a row a
\* sequence of numbers; the header line of adda's ampl_scatgrid is the row << >>.
NoFile == [exists |-> FALSE, numeric |-> TRUE, text |-> << >>]
File(numeric, text) == [exists |-> TRUE, numeric |-> numeric, text |-> text]
HeaderRow == << >>

\* column c (0-based) of row i of the file written in run r
CellValue(r, i, c) == 100 * r + 10 * i + c
TmatRow(i) == [c \in 1..8 |-> CellValue(0, i, c - 1)]
AddaRow(r, i) == [c \in 1..10 |-> CellValue(r, i, c - 1)]
TmatOutFile(m) == File(TRUE, [i \in 1..m |-> TmatRow(i)])
AddaOutFile(r, m) == File(TRUE, <<HeaderRow>> \o [i \in 1..m |-> AddaRow(r, i)])
Garbage == File(FALSE, << >>)

\* np.loadtxt(f, skiprows=k): "ok" with the array, or "ValueError".  With the
\* default ndmin=0 a file of one row is squeezed to a 1-d array and an empty
\* file gives an empty 1-d array.
Loadtxt(f, skiprows) ==
    LET rows == SubSeq(f.text, skiprows + 1, Len(f.text))
    IN  IF ~f.numeric \/ \E i \in 1..Len(rows) : rows[i] = HeaderRow
        THEN [status |-> "ValueError", ndim |-> 0, rows |-> << >>]
        ELSE [status |-> "ok",
              ndim |-> IF Len(rows) >= 2 THEN 2 ELSE 1,
              rows |-> rows]

\* row[start::step] (0-based start) of a numpy row
Slice(row, start, step) ==
    [k \in 1..((Len(row) - start + step - 1) \div step) |->
        row[start + (k - 1) * step + 1]]

\* a[:,re::2] + 1.0j*a[:,im::2] for one row
ComplexRow(row, re, im) ==
    LET x == Slice(row, re, 2)
        y == Slice(row, im, 2)
    IN  [k \in 1..Len(x) |-> Cplx(x[k], y[k])]

\* np.array([[a, b], [c, d]]).transpose(): the array built has shape
\* (2, 2, M) with A[p][q][i]; transpose() reverses all axes, so the
\* result has shape (M, 2, 2) with T[i][q][p] = A[p][q][i].
TransposeAll(a, m) ==
    [i \in 1..m |-> [q \in 1..2 |-> [p \in 1..2 |-> a[p][q][i]]]]

\* tmatrix.py 137-141
TmatScatMatr(rows) ==
    LET m == Len(rows)
        s0 == [i \in 1..m |-> ComplexRow(rows[i], 0, 1)]
        s == [i \in 1..m |-> [k \in 1..4 |-> MishchenkoScale(s0[i][k])]]
        a == << << [i \in 1..m |-> s[i][1]], [i \in 1..m |-> s[i][2]] >>,
                << [i \in 1..m |-> CNeg(s[i][3])], [i \in 1..m |-> CNeg(s[i][4])] >> >>
    IN  TransposeAll(a, m)

\* dda.py 142-146
DdaScatMatr(rows) ==
    LET m == Len(rows)
        s == [i \in 1..m |-> ComplexRow(rows[i], 2, 3)]
        a == << << [i \in 1..m |-> s[i][2]], [i \in 1..m |-> s[i][3]] >>,
                << [i \in 1..m |-> s[i][4]], [i \in 1..m |-> s[i][1]] >> >>
    IN  TransposeAll(a, m)

\* -------------------------------------------------------- external behaviour
\* subprocess.check_call raises CalledProcessError on a non-zero exit status
\* (subprocess.call would return the status instead)
CallNeverRaises(status) == FALSE
CheckCallRaises(status) == status # 0

\* shutil.rmtree(d): d no longer exists
RmTreeSkipped(ds, d) == ds
RmTree(ds, d) == ds \ {d}

\* What S.exe may do in its working directory: exit non-zero, or exit zero
\* having written tmatrix_tmp.out (any number of rows, or not numbers) or not.
\* out is the list of matches of the glob for the result artefact.
TmatOutcomes(n) ==
    {[status |-> 1, out |-> << >>], [status |-> 1, out |-> << TmatOutFile(n) >>]}
    \cup {[status |-> 0, out |-> o] :
            o \in {<< >>, << Garbage >>} \cup {<< TmatOutFile(m) >> : m \in 0..MaxRows}}

\* What adda may do: exit non-zero, or exit zero leaving some run000*
\* directories, each holding ampl_scatgrid (header + rows, or not numbers) or not.
AddaRunContents(r) ==
    {NoFile, Garbage} \cup {AddaOutFile(r, m) : m \in 0..MaxRows}
AddaOutcomes ==
    {[status |-> 1, out |-> << >>]}
    \cup {[status |-> 0, out |-> << >>]}
    \cup {[status |-> 0, out |-> [r \in 1..k |-> IF r = 1 THEN f ELSE AddaOutFile(r, 2)]] :
            k \in 1..MaxRuns, f \in AddaRunContents(1)}

\* ------------------------------------------------------------------- state
VARIABLES
    dirs,       \* the temporary directories that exist
    nextDir,    \* tempfile.mkdtemp's next unused name
    cwd,        \* the process-wide current working directory
    sexe,       \* tmatrix_f/S.exe is present beside tmatrix.py
    adda,       \* adda is on the PATH and runs
    delete,     \* Tmatrix.delete of the Tmatrix object
    ddaObj,     \* "none", "ok" (DDA constructed) or "DependencyMissing"
    ncalls,     \* calls started so far
    call        \* per thread: the activation record of its current call

vars == <<dirs, nextDir, cwd, sexe, adda, delete, ddaObj, ncalls, call>>

NoInp == [exists |-> FALSE, open |-> FALSE, lines |-> << >>]
NoArray == [status |-> "none", ndim |-> 0, rows |-> << >>]

IdleCall ==
    [pc |-> "idle", theory |-> "tmatrix",
     scatterer |-> [kind |-> "Sphere", shape |-> 0], npts |-> 0,
     temp_dir |-> NoDir, current_directory |-> NoDir,
     exe |-> FALSE,          \* S.exe staged in temp_dir
     inp |-> NoInp,          \* tmatrix_tmp.inp / scat_params.dat in temp_dir
     solver |-> "notrun",    \* "notrun", "ok" (exit 0), "failed" (exit # 0)
     launch |-> NoInp,       \* the input file as the solver found it
     out |-> << >>,          \* the result artefacts in temp_dir
     result_file |-> NoFile, \* the artefact picked by glob(...)[0]
     loaded |-> NoArray,     \* what np.loadtxt returned
     scat_matr |-> << >>, has_scat |-> FALSE,
     result |-> << >>, has_result |-> FALSE,
     err |-> "none", stages |-> << >>]

Init ==
    /\ dirs = {}
    /\ nextDir = 1
    /\ cwd = OrigDir
    /\ sexe \in BOOLEAN
    /\ adda \in BOOLEAN
    /\ delete \in BOOLEAN
    /\ ddaObj = "none"
    /\ ncalls = 0
    /\ call = [t \in Threads |-> IdleCall]

Exists(d) == d = OrigDir \/ d \in dirs
Terminal(c) == c.pc \in {"returned", "raised"}
Active(c) == c.pc \notin {"idle", "returned", "raised"}

Raise(c, e) == [c EXCEPT !.pc = "raised", !.err = e]
Set(t, c) == call' = [call EXCEPT ![t] = c]

\* ------------------------------------------------------------- DDA.__init__
\* dda.py 74-81
DdaInit ==
    /\ ddaObj = "none"
    /\ ddaObj' = IF adda THEN "ok" ELSE "DependencyMissing"
    /\ UNCHANGED <<dirs, nextDir, cwd, sexe, adda, delete, ncalls, call>>

\* --------------------------------------------------------------- call entry
\* a caller invokes Tmatrix._raw_fields or DDA.calc_holo on thread t; the
\* theory objects were constructed before (Tmatrix(delete), DDA(optics))
Begin(t, th, sc, n) ==
    /\ call[t].pc = "idle"
    /\ ncalls < MaxCalls
    /\ ddaObj # "none"
    /\ th = "dda" => ddaObj = "ok"
    /\ Set(t, [IdleCall EXCEPT !.pc = IF th = "tmatrix" THEN "t74" ELSE "d100",
                               !.theory = th, !.scatterer = sc, !.npts = n])
    /\ ncalls' = ncalls + 1
    /\ UNCHANGED <<dirs, nextDir, cwd, sexe, adda, delete, ddaObj>>

\* the calls of a single-threaded caller: one after the other
StartSeq(t) ==
    /\ \A u \in Threads : call[u].pc = "idle"
    /\ \E th \in Theories, n \in 1..MaxPoints :
         \E sc \in (IF th = "tmatrix" THEN TmatScatterers ELSE DdaScatterers) :
            Begin(t, th, sc, n)

\* a caller that spreads one T-matrix computation over threads: a call starts
\* while another T-matrix call on the same scatterer and sampling points runs
StartConc(t) ==
    \E u \in Threads \ {t} :
        /\ Active(call[u])
        /\ call[u].theory = "tmatrix"
        /\ Begin(t, "tmatrix", call[u].scatterer, call[u].npts)

\* the caller drops what the call returned or raised
Finish(t) ==
    /\ Terminal(call[t])
    /\ Set(t, IdleCall)
    /\ UNCHANGED <<dirs, nextDir, cwd, sexe, adda, delete, ddaObj, ncalls>>

\* ------------------------------------------------ Tmatrix._raw_scat_matrs
\* tmatrix.py 65-66: Tmatrix._can_handle
CanHandle(sc) == sc.kind = "Sphere" \/ sc.kind = "Axisymmetric"

Frame == <<sexe, adda, delete, ddaObj, ncalls>>

\* tmatrix.py 74: temp_dir = tempfile.mkdtemp()
TMkdtemp(t) ==
    /\ call[t].pc = "t74"
    /\ dirs' = dirs \cup {nextDir}
    /\ nextDir' = nextDir + 1
    /\ Set(t, [call[t] EXCEPT !.pc = "t75", !.temp_dir = nextDir])
    /\ UNCHANGED <<cwd, Frame>>

\* tmatrix.py 75: current_directory = os.getcwd(); getcwd raises when the
\* working directory has been removed
TGetcwd(t) ==
    /\ call[t].pc = "t75"
    /\ IF Exists(cwd)
       THEN Set(t, [call[t] EXCEPT !.pc = "t78", !.current_directory = cwd])
       ELSE Set(t, Raise(call[t], "FileNotFoundError"))
    /\ UNCHANGED <<dirs, nextDir, cwd, Frame>>

\* tmatrix.py 76-78: shutil.copy(tmatrixlocation, temp_dir)
TCopyExe(t) ==
    /\ call[t].pc = "t78"
    /\ IF sexe
       THEN Set(t, [call[t] EXCEPT !.pc = "t79", !.exe = TRUE])
       ELSE Set(t, Raise(call[t], "FileNotFoundError"))
    /\ UNCHANGED <<dirs, nextDir, cwd, Frame>>

\* tmatrix.py 79: os.chdir(temp_dir)
TChdir(t) ==
    /\ call[t].pc = "t79"
    /\ cwd' = call[t].temp_dir
    /\ Set(t, [call[t] EXCEPT !.pc = "t82"])
    /\ UNCHANGED <<dirs, nextDir, Frame>>

\* tmatrix.py 81-82: outf = open(.../tmatrix_tmp.inp, 'wb')
TOpen(t) ==
    /\ call[t].pc = "t82"
    /\ Set(t, [call[t] EXCEPT !.pc = "t87",
                              !.inp = [exists |-> TRUE, open |-> TRUE, lines |-> << >>]])
    /\ UNCHANGED <<dirs, nextDir, cwd, Frame>>

\* tmatrix.py 87-112: the isinstance dispatch and the scalar lines
TWriteHeader(t) ==
    LET c == call[t]
        sc == c.scatterer
    IN  /\ c.pc = "t87"
        /\ CASE sc.kind = "Sphere" ->
                  Set(t, [c EXCEPT !.pc = "t119", !.inp.lines = SphereHeader(c.npts)])
             [] sc.kind = "Axisymmetric" ->
                  Set(t, [c EXCEPT !.pc = "t119",
                                   !.inp.lines = AxisymmetricHeader(sc.shape, c.npts)])
             [] OTHER -> Set(t, [c EXCEPT !.pc = "t114"])
        /\ UNCHANGED <<dirs, nextDir, cwd, Frame>>

\* tmatrix.py 113-116: outf.close(); shutil.rmtree(temp_dir); raise
TUnsupported(t) ==
    /\ call[t].pc = "t114"
    /\ dirs' = RmTree(dirs, call[t].temp_dir)
    /\ Set(t, Raise([call[t] EXCEPT !.inp = NoInp, !.exe = FALSE],
                    "TheoryNotCompatibleError"))
    /\ UNCHANGED <<nextDir, cwd, Frame>>

\* tmatrix.py 119-120: np.savetxt(outf, angles); outf.close()
TWriteAngles(t) ==
    LET c == call[t]
    IN  /\ c.pc = "t119"
        /\ Set(t, [c EXCEPT !.pc = "t122",
                            !.inp = [exists |-> TRUE, open |-> FALSE,
                                     lines |-> c.inp.lines \o AngleRows(c.npts)],
                            !.stages = Append(c.stages, "encode")])
        /\ UNCHANGED <<dirs, nextDir, cwd, Frame>>

\* tmatrix.py 122 and 68-71: subprocess.check_call(['./S.exe'], cwd=temp_dir)
TRunTmat(t) ==
    LET c == call[t]
    IN  /\ c.pc = "t122"
        /\ \E o \in TmatOutcomes(c.npts) :
             LET ran == [c EXCEPT !.solver = IF o.status = 0 THEN "ok" ELSE "failed",
                                  !.launch = c.inp, !.out = o.out,
                                  !.stages = Append(c.stages, "invoke")]
             IN  IF CheckCallRaises(o.status)
                 THEN Set(t, Raise(ran, "CalledProcessError"))
                 ELSE Set(t, [ran EXCEPT !.pc = "t125"])
        /\ UNCHANGED <<dirs, nextDir, cwd, Frame>>

\* tmatrix.py 125: result_file = glob.glob(.../tmatrix_tmp.out)[0]
TGlob(t) ==
    LET c == call[t]
    IN  /\ c.pc = "t125"
        /\ IF Len(c.out) = 0
           THEN Set(t, Raise(c, "IndexError"))
           ELSE Set(t, [c EXCEPT !.pc = "t127", !.result_file = c.out[1]])
        /\ UNCHANGED <<dirs, nextDir, cwd, Frame>>

\* tmatrix.py 127: tmat_result = np.loadtxt(result_file)
TLoadtxt(t) ==
    LET c == call[t]
        a == Loadtxt(c.result_file, 0)
    IN  /\ c.pc = "t127"
        /\ IF a.status = "ok"
           THEN Set(t, [c EXCEPT !.pc = "t137", !.loaded = a,
                                 !.stages = Append(c.stages, "parse")])
           ELSE Set(t, Raise(c, a.status))
        /\ UNCHANGED <<dirs, nextDir, cwd, Frame>>

\* tmatrix.py 137-141: tmat_result[:,0::2] needs a 2-d array
TTransform(t) ==
    LET c == call[t]
    IN  /\ c.pc = "t137"
        /\ IF c.loaded.ndim = 2
           THEN Set(t, [c EXCEPT !.pc = "t143", !.has_scat = TRUE,
                                 !.scat_matr = TmatScatMatr(c.loaded.rows),
                                 !.stages = Append(c.stages, "transform")])
           ELSE Set(t, Raise(c, "IndexError"))
        /\ UNCHANGED <<dirs, nextDir, cwd, Frame>>

\* tmatrix.py 143: os.chdir(current_directory)
TChdirBack(t) ==
    LET c == call[t]
    IN  /\ c.pc = "t143"
        /\ IF Exists(c.current_directory)
           THEN /\ cwd' = c.current_directory
                /\ Set(t, [c EXCEPT !.pc = "t145"])
           ELSE /\ cwd' = cwd
                /\ Set(t, Raise(c, "FileNotFoundError"))
        /\ UNCHANGED <<dirs, nextDir, Frame>>

\* tmatrix.py 145-148: if self.delete: shutil.rmtree(temp_dir); return scat_matr
TCleanup(t) ==
    LET c == call[t]
    IN  /\ c.pc = "t145"
        /\ IF delete
           THEN /\ dirs' = RmTree(dirs, c.temp_dir)
                /\ Set(t, [c EXCEPT !.pc = "t153", !.inp = NoInp, !.exe = FALSE])
           ELSE /\ dirs' = dirs
                /\ Set(t, [c EXCEPT !.pc = "t153"])
        /\ UNCHANGED <<nextDir, cwd, Frame>>

\* what mieangfuncs computes for sampling point i from its scattering matrix
Synthesize(i, sm) == [point |-> i, from |-> sm]

\* tmatrix.py 153-162: for i, point in enumerate(pos): ... scat_matr[i] ...
TRawFields(t) ==
    LET c == call[t]
    IN  /\ c.pc = "t153"
        /\ IF Len(c.scat_matr) < c.npts
           THEN Set(t, Raise(c, "IndexError"))
           ELSE Set(t, [c EXCEPT !.pc = "returned", !.has_result = TRUE,
                                 !.result = [i \in 1..c.npts |->
                                               Synthesize(i, c.scat_matr[i])],
                                 !.stages = Append(c.stages, "synthesize")])
        /\ UNCHANGED <<dirs, nextDir, cwd, Frame>>

TmatStep(t) ==
    \/ TMkdtemp(t) \/ TGetcwd(t) \/ TCopyExe(t) \/ TChdir(t) \/ TOpen(t)
    \/ TWriteHeader(t) \/ TUnsupported(t) \/ TWriteAngles(t) \/ TRunTmat(t)
    \/ TGlob(t) \/ TLoadtxt(t) \/ TTransform(t) \/ TChdirBack(t)
    \/ TCleanup(t) \/ TRawFields(t)

\* ------------------------------------------------------------ DDA.calc_holo
\* dda.py 100: temp_dir = tempfile.mkdtemp()
DMkdtemp(t) ==
    /\ call[t].pc = "d100"
    /\ dirs' = dirs \cup {nextDir}
    /\ nextDir' = nextDir + 1
    /\ Set(t, [call[t] EXCEPT !.pc = "d107", !.temp_dir = nextDir])
    /\ UNCHANGED <<cwd, Frame>>

\* dda.py 102-107 and 83-97: _write_adda_angles_file writes scat_params.dat
\* (header, then the angle table) and closes it
DWriteAngles(t) ==
    LET c == call[t]
    IN  /\ c.pc = "d107"
        /\ Set(t, [c EXCEPT !.pc = "d113",
                            !.inp = [exists |-> TRUE, open |-> FALSE,
                                     lines |-> AddaHeader(c.npts) \o AngleRows(c.npts)],
                            !.stages = Append(c.stages, "encode")])
        /\ UNCHANGED <<dirs, nextDir, cwd, Frame>>

\* dda.py 113-118: subprocess.check_call(['adda', ...], cwd=temp_dir)
DRunAdda(t) ==
    LET c == call[t]
    IN  /\ c.pc = "d113"
        /\ \E o \in AddaOutcomes :
             LET ran == [c EXCEPT !.solver = IF o.status = 0 THEN "ok" ELSE "failed",
                                  !.launch = c.inp, !.out = o.out,
                                  !.stages = Append(c.stages, "invoke")]
             IN  IF CheckCallRaises(o.status)
                 THEN Set(t, Raise(ran, "CalledProcessError"))
                 ELSE Set(t, [ran EXCEPT !.pc = "d121"])
        /\ UNCHANGED <<dirs, nextDir, cwd, Frame>>

\* dda.py 121: result_dir = glob.glob(.../run000*)[0]; glob lists the matches
\* in directory order, which is arbitrary
DGlob(t) ==
    LET c == call[t]
    IN  /\ c.pc = "d121"
        /\ IF Len(c.out) = 0
           THEN Set(t, Raise(c, "IndexError"))
           ELSE \E r \in 1..Len(c.out) :
                   Set(t, [c EXCEPT !.pc = "d123", !.result_file = c.out[r]])
        /\ UNCHANGED <<dirs, nextDir, cwd, Frame>>

\* dda.py 123-124: np.loadtxt(result_dir/ampl_scatgrid, skiprows=1)
DLoadtxt(t) ==
    LET c == call[t]
        a == Loadtxt(c.result_file, 1)
    IN  /\ c.pc = "d123"
        /\ IF ~c.result_file.exists
           THEN Set(t, Raise(c, "IOError"))
           ELSE IF a.status = "ok"
                THEN Set(t, [c EXCEPT !.pc = "d128", !.loaded = a,
                                      !.stages = Append(c.stages, "parse")])
                ELSE Set(t, Raise(c, a.status))
        /\ UNCHANGED <<dirs, nextDir, cwd, Frame>>

\* dda.py 128-146: adda_result[:,0] needs a 2-d array
DTransform(t) ==
    LET c == call[t]
    IN  /\ c.pc = "d128"
        /\ IF c.loaded.ndim = 2
           THEN Set(t, [c EXCEPT !.pc = "d153", !.has_scat = TRUE,
                                 !.scat_matr = DdaScatMatr(c.loaded.rows),
                                 !.stages = Append(c.stages, "transform")])
           ELSE Set(t, Raise(c, "IndexError"))
        /\ UNCHANGED <<dirs, nextDir, cwd, Frame>>

\* dda.py 150-160: the rmtree is commented out; for i in range(len(kr)):
\* ... scat_matr[i] ...; return hp.Hologram(...)
DPixels(t) ==
    LET c == call[t]
    IN  /\ c.pc = "d153"
        /\ IF Len(c.scat_matr) < c.npts
           THEN Set(t, Raise(c, "IndexError"))
           ELSE Set(t, [c EXCEPT !.pc = "returned", !.has_result = TRUE,
                                 !.result = [i \in 1..c.npts |->
                                               Synthesize(i, c.scat_matr[i])],
                                 !.stages = Append(c.stages, "synthesize")])
        /\ UNCHANGED <<dirs, nextDir, cwd, Frame>>

DdaStep(t) ==
    \/ DMkdtemp(t) \/ DWriteAngles(t) \/ DRunAdda(t) \/ DGlob(t)
    \/ DLoadtxt(t) \/ DTransform(t) \/ DPixels(t)

\* ------------------------------------------------------------ specifications
\* a single-threaded caller: the calls follow one another
Next ==
    \/ DdaInit
    \/ \E t \in Threads : StartSeq(t) \/ TmatStep(t) \/ DdaStep(t) \/ Finish(t)

Spec == Init /\ [][Next]_vars

\* a caller with several threads: calls may overlap
NextConc ==
    \/ Next
    \/ \E t \in Threads : StartConc(t)

SpecConc == Init /\ [][NextConc]_vars

\* ------------------------------------------------------------------ claims
Tmat(c) == c.pc # "idle" /\ c.theory = "tmatrix"
Dda(c) == c.pc # "idle" /\ c.theory = "dda"
KeepRequested(c) == c.theory = "tmatrix" /\ ~delete

\* C1: when a call that acquired a temporary directory returns or raises,
\* the directory no longer exists, unless the caller asked to keep it
\* (Tmatrix delete=False).
C1_TempDirReleased ==
    \A t \in Threads :
        (Terminal(call[t]) /\ call[t].temp_dir # NoDir /\ ~KeepRequested(call[t]))
            => call[t].temp_dir \notin dirs

C3_DependencyMissingBeforeTempDir ==
    /\ ~adda => /\ ddaObj \in {"none", "DependencyMissing"}
                /\ \A t \in Threads : ~Dda(call[t])
    /\ \A t \in Threads :
          (Tmat(call[t]) /\ ~sexe)
             => /\ call[t].temp_dir = NoDir
                /\ Terminal(call[t]) => call[t].err = "DependencyMissing"

\* C4: an Axisymmetric whose shape is neither -1 nor -2 makes the encoding
\* raise and the solver is never launched; for shape -1 and -2 the file given
\* to the solver starts with the equivalent-radius line and has exactly 9
\* scalar lines before the angle table.
C4_ShapeCheckedAtEncode ==
    \A t \in Threads :
        (Tmat(call[t]) /\ call[t].scatterer.kind = "Axisymmetric")
            => IF call[t].scatterer.shape \in {-1, -2}
               THEN call[t].solver # "notrun"
                      => /\ call[t].launch.lines[1].tag = "eqradius"
                         /\ Len(call[t].launch.lines) = 9 + call[t].npts
                         /\ call[t].launch.lines[10].tag = "angle"
               ELSE /\ call[t].solver = "notrun"
                    /\ call[t].pc # "returned"

\* C5: a call that returns has a scattering matrix sequence of exactly N
\* entries, the i-th from the i-th solver output row; a solver output whose
\* row count differs from N makes the call fail (whatever the error is
\* called) instead of returning a truncated or padded result.
C5_RowCountValidated ==
    \A t \in Threads :
        /\ call[t].pc = "returned"
              => /\ Len(call[t].scat_matr) = call[t].npts
                 /\ Len(call[t].result) = call[t].npts
        /\ (call[t].loaded.status = "ok" /\ Len(call[t].loaded.rows) # call[t].npts)
              => call[t].pc # "returned"

\* C6: with zero or with several result artefacts after the solver ran, the
\* call fails (whatever the error is called); an artefact is picked and read
\* only when it is the only match.
C6_ExactlyOneArtefact ==
    \A t \in Threads :
        /\ (call[t].solver = "ok" /\ Len(call[t].out) # 1 /\ Terminal(call[t]))
              => call[t].pc = "raised"
        /\ (call[t].pc \in {"t127", "d123"} \/ call[t].loaded.status # "none")
              => Len(call[t].out) = 1

\* the complex value of columns re, im (0-based) of a loaded row
Value(row, re, im) == Cplx(row[re + 1], row[im + 1])

\* C7: the T-matrix matrix of sampling point i is
\* [[k*s11, k*s12], [-k*s21, -k*s22]] for the i-th output row
\* (s11.r s11.i s12.r s12.i s21.r s21.i s22.r s22.i), k the scale factor.
C7_TmatMatrixLayout ==
    \A t \in Threads :
        (Tmat(call[t]) /\ call[t].has_scat) =>
            \A i \in 1..Len(call[t].scat_matr) :
                LET row == call[t].loaded.rows[i]
                    m == call[t].scat_matr[i]
                IN  /\ m[1][1] = MishchenkoScale(Value(row, 0, 1))
                    /\ m[1][2] = MishchenkoScale(Value(row, 2, 3))
                    /\ m[2][1] = CNeg(MishchenkoScale(Value(row, 4, 5)))
                    /\ m[2][2] = CNeg(MishchenkoScale(Value(row, 6, 7)))

\* C8: the DDA matrix of sampling point i has the complex values decoded from
\* columns 2..9 of the i-th row, indexed 0..3, at (1,1) <- 1, (1,2) <- 2,
\* (2,1) <- 3, (2,2) <- 0.
C8_DdaMatrixLayout ==
    \A t \in Threads :
        (Dda(call[t]) /\ call[t].has_scat) =>
            \A i \in 1..Len(call[t].scat_matr) :
                LET row == call[t].loaded.rows[i]
                    m == call[t].scat_matr[i]
                IN  /\ m[1][1] = Value(row, 4, 5)
                    /\ m[1][2] = Value(row, 6, 7)
                    /\ m[2][1] = Value(row, 8, 9)
                    /\ m[2][2] = Value(row, 2, 3)

\* C9: overlapping T-matrix calls use distinct temporary directories, and
\* when the overlapping calls have all returned the current working directory
\* is the one the process started in.
C9_ConcurrentCallsSafe ==
    /\ \A t, u \in Threads :
          (t # u /\ call[t].temp_dir # NoDir) => call[t].temp_dir # call[u].temp_dir
    /\ (\A t \in Threads : Tmat(call[t]) /\ call[t].pc = "returned")
          => cwd = OrigDir

\* C10: the stages of a call happen in the order encode, invoke, parse,
\* transform, synthesize; the solver is launched on an input file that is
\* closed and holds all N angle rows; the result is read only after the
\* solver exited with status 0; a non-zero exit makes the call raise, with no
\* result read and no scattering matrix, field or hologram produced.
StageOrder == << "encode", "invoke", "parse", "transform", "synthesize" >>
IsPrefix(a, b) == Len(a) <= Len(b) /\ a = SubSeq(b, 1, Len(a))

C10_StagesInOrder ==
    \A t \in Threads :
        LET c == call[t]
            n == Len(c.launch.lines)
        IN  /\ IsPrefix(c.stages, StageOrder)
            /\ c.solver # "notrun"
                  => /\ c.launch.exists /\ ~c.launch.open
                     /\ n > c.npts
                     /\ SubSeq(c.launch.lines, n - c.npts + 1, n) = AngleRows(c.npts)
            /\ (c.loaded.status # "none" \/ c.result_file.exists \/ c.has_scat
                  \/ c.has_result) => c.solver = "ok"
            /\ c.solver = "failed"
                  => c.pc = "raised" /\ c.err = "CalledProcessError"
            /\ c.pc = "returned" => c.has_result /\ c.stages = StageOrder

C10_Witness ==
    \E t \in Threads :
        /\ call[t].pc = "raised" /\ call[t].solver = "failed"
        /\ Len(call[t].out) = 1
        /\ call[t].stages = << "encode", "invoke" >>

\* C11: for a Sphere and N sampling points the T-matrix input file, once
\* written and closed (and as the solver finds it), is exactly 9 scalar lines
\* -- radius, medium wavelength, relative index real part, imaginary part,
\* aspect ratio 1, rotation 0, rotation 0, shape code -1, point count N --
\* followed by exactly N angle rows in the order of the sampling points.
IsSphereInput(lines, n) ==
    /\ Len(lines) = 9 + n
    /\ lines[1].tag = "radius"
    /\ lines[2].tag = "med_wavelen"
    /\ lines[3].tag = "n_real"
    /\ lines[4].tag = "n_imag"
    /\ lines[5] = [tag |-> "lit", val |-> 1]
    /\ lines[6] = [tag |-> "lit", val |-> 0]
    /\ lines[7] = [tag |-> "lit", val |-> 0]
    /\ lines[8] = [tag |-> "lit", val |-> -1]
    /\ lines[9].val = n /\ lines[9].tag = "count"
    /\ \A i \in 1..n : lines[9 + i] = [tag |-> "angle", val |-> i]

C11_SphereInputFile ==
    \A t \in Threads :
        (Tmat(call[t]) /\ call[t].scatterer.kind = "Sphere")
            => /\ (call[t].inp.exists /\ ~call[t].inp.open)
                     => IsSphereInput(call[t].inp.lines, call[t].npts)
               /\ call[t].solver # "notrun"
                     => IsSphereInput(call[t].launch.lines, call[t].npts)

C11_Witness ==
    \E t \in Threads :
        /\ Tmat(call[t]) /\ call[t].scatterer.kind = "Sphere"
        /\ call[t].npts >= 2
        /\ call[t].solver = "ok"
        /\ Len(call[t].launch.lines) = 9 + call[t].npts

\* C12: whenever no call of a single-threaded caller is in progress -- each
\* earlier T-matrix call having returned or raised -- the current working
\* directory is the one the process started in, and so is no temporary
\* directory, existing or removed.
C12_CwdRestored ==
    (\A t \in Threads : ~Active(call[t])) => cwd = OrigDir

====
